---- MODULE Spec2Model ----
(***************************************************************************)
(* The comm state reducer of packages/core/src/reducers/comms.js.          *)
(*                                                                         *)
(* The store state is one Immutable.Map {targets, models, info}; every     *)
(* handler is a single state.setIn(keyPath, value) (two for COMM_OPEN).    *)
(* A JSON-like value, raw JavaScript or Immutable, is modelled as a tree:  *)
(* a record of a tag and of the children under their keys.  The tag of a   *)
(* container says what it is ("Object"/"Array" for raw JavaScript,         *)
(* "Map"/"List" for Immutable collections); the tag of a leaf is the       *)
(* scalar itself.  Scalars and keys are strings: "count" is the JavaScript *)
(* string "count", "#5" the number 5, "1" the string "1", and "null",      *)
(* "undefined" the two JavaScript values.                                  *)
(***************************************************************************)
EXTENDS Integers, Sequences, FiniteSets, TLC

VARIABLES
    state,   \* the CommState the store holds (the reducer's last result)
    action,  \* the action the reducer was last called with
    threw,   \* TRUE iff that call raised an exception instead of returning
    log      \* the actions dispatched so far (recorded by SpecE2E only)

vars == <<state, action, threw, log>>

----------------------------------------------------------------------------
(* Bounds *)

\* the largest number that is used as a key of a List
MaxIndex == 2
\* number of dispatches SpecE2E records
MaxLog == 3

----------------------------------------------------------------------------
(* Trees *)

Num(i) == "#" \o ToString(i)

NoKids == <<>>

Scalar(tag) == [tag |-> tag, kids |-> NoKids]

\* a container with the given tag and children (a function key -> tree)
Node(tag, kids) == [tag |-> tag, kids |-> kids]

tagOf(t) == t.tag

keysOf(t) == DOMAIN t.kids

child(t, k) == t.kids[k]

\* the sentinels of Immutable's implementation and of this model
NOT_SET == Scalar("NOT_SET")
undefined == Scalar("undefined")
\* the result of an evaluation that raised an exception
THROWN == Scalar("THROWN")
NaN == -1

\* raw JavaScript literals
Obj(kids) == Node("Object", kids)
Arr(s) == Node("Array", [k \in {Num(i - 1) : i \in 1..Len(s)} |-> s[(CHOOSE i \in 1..Len(s) : Num(i - 1) = k)]])

----------------------------------------------------------------------------
(* Immutable.js, as far as the reducer uses it *)

\* Immutable.fromJS: plain objects become Maps and arrays Lists, deeply
RECURSIVE fromJS(_)
fromJS(js) ==
    Node(CASE tagOf(js) = "Object" -> "Map"
           [] tagOf(js) = "Array" -> "List"
           [] OTHER -> tagOf(js),
         [k \in keysOf(js) |-> fromJS(child(js, k))])

emptyMap == Node("Map", NoKids)

isDataStructure(t) == tagOf(t) \in {"Map", "List"}

size(t) == Cardinality(keysOf(t))

\* the keys that are List indices: the numbers, and the strings that are the
\* canonical decimal form of an unsigned integer
indexOfKey ==
    [k \in {Num(i) : i \in 0..MaxIndex} \cup {ToString(i) : i \in 0..MaxIndex}
        |-> CHOOSE i \in 0..MaxIndex : k \in {Num(i), ToString(i)}]

wrapIndex(key) == IF key \in DOMAIN indexOfKey THEN indexOfKey[key] ELSE NaN

\* collection.get(key, NOT_SET)
get(t, key) ==
    IF tagOf(t) = "Map"
    THEN IF key \in keysOf(t) THEN child(t, key) ELSE NOT_SET
    ELSE LET index == wrapIndex(key)
         IN IF index # NaN /\ index < size(t) THEN child(t, Num(index)) ELSE NOT_SET

\* collection.set(key, v): a Map takes any key; a List ignores a key that is
\* no index and grows, leaving undefined holes, for an index past its end
set(t, key, v) ==
    IF tagOf(t) = "Map"
    THEN Node("Map", [k \in keysOf(t) \cup {key} |-> IF k = key THEN v ELSE child(t, k)])
    ELSE LET index == wrapIndex(key)
         IN IF index = NaN THEN t
            ELSE Node("List", [k \in {Num(i) : i \in 0..(IF index < size(t) THEN size(t) - 1 ELSE index)}
                                |-> IF k = Num(index) THEN v
                                    ELSE IF k \in keysOf(t) THEN child(t, k)
                                    ELSE undefined])

\* updateIn(keyPath, NOT_SET, () => v): walks keyPath, refuses to walk
\* through a value that is no collection, builds Maps where nothing is set
RECURSIVE updateInDeepMap(_, _, _)
updateInDeepMap(existing, keyPath, v) ==
    IF keyPath = <<>> THEN v
    ELSE IF existing # NOT_SET /\ ~isDataStructure(existing) THEN THROWN
    ELSE LET key == Head(keyPath)
             nextExisting == IF existing = NOT_SET THEN NOT_SET ELSE get(existing, key)
             nextUpdated == updateInDeepMap(nextExisting, Tail(keyPath), v)
         IN IF nextUpdated = THROWN THEN THROWN
            ELSE set(IF existing = NOT_SET THEN emptyMap ELSE existing, key, nextUpdated)

setIn(t, keyPath, v) == IF t = THROWN THEN THROWN ELSE updateInDeepMap(t, keyPath, v)

\* collection.getIn(keyPath): undefined where the path leads nowhere
RECURSIVE getIn(_, _)
getIn(t, keyPath) ==
    IF keyPath = <<>> THEN t
    ELSE IF ~isDataStructure(t) THEN undefined
    ELSE LET next == get(t, Head(keyPath))
         IN IF next = NOT_SET THEN undefined ELSE getIn(next, Tail(keyPath))

----------------------------------------------------------------------------
(* JavaScript, as far as the reducer uses it *)

\* a value in a condition
truthy(js) == tagOf(js) \notin {"undefined", "null", "false", "#0", ""}

\* js.name: a TypeError on null and undefined, undefined where an object
\* has no such property (arrays and scalars have neither path nor value)
prop(js, name) ==
    IF tagOf(js) \in {"undefined", "null"} THEN THROWN
    ELSE IF tagOf(js) = "Object" /\ name \in keysOf(js) THEN child(js, name)
    ELSE undefined

\* base.concat(x): the elements of an array are appended one by one, any
\* other value (undefined too) is appended as a single element
concat(base, x) ==
    IF tagOf(x) = "Array"
    THEN base \o [i \in 1..size(x) |-> tagOf(child(x, Num(i - 1)))]
    ELSE Append(base, tagOf(x))

----------------------------------------------------------------------------
(* The reducer *)

defaultCommState ==
    Node("Map", [k \in {"targets", "models", "info"} |-> emptyMap])

\* a registration that keeps the handler a name already has
registerCommTarget_KeepFirst(s, a) ==
    IF a.name \in keysOf(get(s, "targets")) THEN s
    ELSE setIn(s, <<"targets", a.name>>, Scalar(a.handler))

\* a registration that starts the registry afresh
registerCommTarget_ReplacesRegistry(s, a) ==
    set(s, "targets", Node("Map", (a.name :> Scalar(a.handler))))

registerCommTarget(s, a) ==
    setIn(s, <<"targets", a.name>>, Scalar(a.handler))

\* an open that stores the two fields of the info record under each other's name
processCommOpen_SwappedInfo(s, a) ==
    LET commInfo == Obj([target_module |-> Scalar(a.target_name),
                         target_name |-> Scalar(a.target_module)])
    IN setIn(setIn(s, <<"info", a.comm_id>>, fromJS(commInfo)),
             <<"models", a.comm_id>>, fromJS(a.data))

\* an open that merges the data into the model the comm already has
processCommOpen_Merge(s, a) ==
    LET commInfo == Obj([target_module |-> Scalar(a.target_module),
                         target_name |-> Scalar(a.target_name)])
        old == getIn(s, <<"models", a.comm_id>>)
        new == fromJS(a.data)
        merged == IF tagOf(old) = "Map" /\ tagOf(new) = "Map"
                  THEN Node("Map", [k \in keysOf(old) \cup keysOf(new) |->
                                      IF k \in keysOf(new) THEN child(new, k) ELSE child(old, k)])
                  ELSE new
    IN setIn(setIn(s, <<"info", a.comm_id>>, fromJS(commInfo)),
             <<"models", a.comm_id>>, merged)

\* an open that is dropped when its target name is not registered
processCommOpen_RequiresTarget(s, a) ==
    LET commInfo == Obj([target_module |-> Scalar(a.target_module),
                         target_name |-> Scalar(a.target_name)])
    IN IF a.target_name \notin keysOf(get(s, "targets")) THEN s
       ELSE setIn(setIn(s, <<"info", a.comm_id>>, fromJS(commInfo)),
                  <<"models", a.comm_id>>, fromJS(a.data))

\* an open that keeps the info record a comm already has
processCommOpen_KeepFirstInfo(s, a) ==
    LET commInfo == Obj([target_module |-> Scalar(a.target_module),
                         target_name |-> Scalar(a.target_name)])
        withInfo == IF a.comm_id \in keysOf(get(s, "info")) THEN s
                    ELSE setIn(s, <<"info", a.comm_id>>, fromJS(commInfo))
    IN setIn(withInfo, <<"models", a.comm_id>>, fromJS(a.data))

\* an open that starts the models afresh
processCommOpen_ResetsModels(s, a) ==
    LET commInfo == Obj([target_module |-> Scalar(a.target_module),
                         target_name |-> Scalar(a.target_name)])
    IN setIn(set(setIn(s, <<"info", a.comm_id>>, fromJS(commInfo)), "models", emptyMap),
             <<"models", a.comm_id>>, fromJS(a.data))

\* an open that records the info and forgets the model
processCommOpen_InfoOnly(s, a) ==
    LET commInfo == Obj([target_module |-> Scalar(a.target_module),
                         target_name |-> Scalar(a.target_name)])
    IN setIn(s, <<"info", a.comm_id>>, fromJS(commInfo))

processCommOpen(s, a) ==
    LET commInfo == Obj([target_module |-> Scalar(a.target_module),
                         target_name |-> Scalar(a.target_name)])
    IN setIn(setIn(s, <<"info", a.comm_id>>, fromJS(commInfo)),
             <<"models", a.comm_id>>, fromJS(a.data))

\* a message handler that takes either field of the convention for both
processCommMessage_EitherField(s, a) ==
    LET data == a.data
        comm_id == a.comm_id
        commInfo == getIn(s, <<"info", comm_id>>)
    IN IF /\ truthy(commInfo)
          /\ \/ get(commInfo, "target_module") = Scalar("reducers")
             \/ get(commInfo, "target_name") = Scalar("setIn")
       THEN LET path == prop(data, "path")
                value == prop(data, "value")
            IN IF path = THROWN THEN THROWN
               ELSE setIn(s, concat(<<"models", comm_id>>, path), fromJS(value))
       ELSE setIn(s, <<"models", comm_id>>, fromJS(data))

\* a message handler that path-writes when the comm has no info record
processCommMessage_PatchWithoutInfo(s, a) ==
    LET data == a.data
        comm_id == a.comm_id
        commInfo == getIn(s, <<"info", comm_id>>)
    IN IF \/ ~truthy(commInfo)
          \/ /\ get(commInfo, "target_module") = Scalar("reducers")
             /\ get(commInfo, "target_name") = Scalar("setIn")
       THEN LET path == prop(data, "path")
                value == prop(data, "value")
            IN IF path = THROWN THEN THROWN
               ELSE setIn(s, concat(<<"models", comm_id>>, path), fromJS(value))
       ELSE setIn(s, <<"models", comm_id>>, fromJS(data))

\* a message handler whose replacement goes to the info map
processCommMessage_WritesInfo(s, a) ==
    LET data == a.data
        comm_id == a.comm_id
        commInfo == getIn(s, <<"info", comm_id>>)
    IN IF /\ truthy(commInfo)
          /\ get(commInfo, "target_module") = Scalar("reducers")
          /\ get(commInfo, "target_name") = Scalar("setIn")
       THEN LET path == prop(data, "path")
                value == prop(data, "value")
            IN IF path = THROWN THEN THROWN
               ELSE setIn(s, concat(<<"models", comm_id>>, path), fromJS(value))
       ELSE setIn(s, <<"info", comm_id>>, fromJS(data))

\* a message handler that path-writes only where the model has the containers
processCommMessage_OnlyExisting(s, a) ==
    LET data == a.data
        comm_id == a.comm_id
        commInfo == getIn(s, <<"info", comm_id>>)
    IN IF /\ truthy(commInfo)
          /\ get(commInfo, "target_module") = Scalar("reducers")
          /\ get(commInfo, "target_name") = Scalar("setIn")
       THEN LET path == prop(data, "path")
                value == prop(data, "value")
                keyPath == concat(<<"models", comm_id>>, path)
            IN IF path = THROWN THEN THROWN
               ELSE IF getIn(s, SubSeq(keyPath, 1, Len(keyPath) - 1)) = undefined THEN s
               ELSE setIn(s, keyPath, fromJS(value))
       ELSE setIn(s, <<"models", comm_id>>, fromJS(data))

processCommMessage(s, a) ==
    LET data == a.data
        comm_id == a.comm_id
        commInfo == getIn(s, <<"info", comm_id>>)
    IN IF /\ truthy(commInfo)
          /\ get(commInfo, "target_module") = Scalar("reducers")
          /\ get(commInfo, "target_name") = Scalar("setIn")
       THEN LET path == prop(data, "path")
                value == prop(data, "value")
            IN IF path = THROWN THEN THROWN
               ELSE setIn(s, concat(<<"models", comm_id>>, path), fromJS(value))
       ELSE setIn(s, <<"models", comm_id>>, fromJS(data))

\* a reducer that falls back to the default state
reducer_ResetOnUnknown(s, a) ==
    CASE a.type = "REGISTER_COMM_TARGET" -> registerCommTarget(s, a)
      [] a.type = "COMM_OPEN" -> processCommOpen(s, a)
      [] a.type = "COMM_MESSAGE" -> processCommMessage(s, a)
      [] OTHER -> defaultCommState

reducer(s, a) ==
    CASE a.type = "REGISTER_COMM_TARGET" -> registerCommTarget(s, a)
      [] a.type = "COMM_OPEN" -> processCommOpen(s, a)
      [] a.type = "COMM_MESSAGE" -> processCommMessage(s, a)
      [] OTHER -> s

----------------------------------------------------------------------------
(* Actions the store can be given *)

Names == {"widget", "t"}
Handlers == {"h1", "h2"}
CommIds == {"c1", "c2"}
TargetModules == {"reducers", "custom"}
TargetNames == {"setIn", "widget"}
OtherTypes == {"COMM_CLOSE"}

Patch(path, value) == Obj([path |-> Arr([i \in 1..Len(path) |-> Scalar(path[i])]), value |-> value])

\* the data of the COMM_OPEN actions
OpenData ==
    { Obj([count |-> Scalar(Num(0))]),
      Obj([a |-> Obj([b |-> Scalar(Num(1)), c |-> Scalar(Num(2))])]),
      Obj([a |-> Arr(<<Scalar(Num(1)), Scalar(Num(2))>>)]) }

\* the data of the COMM_MESSAGE actions: path-writes to a leaf, below a leaf
\* and into a sequence, and data that has no path
MessageData ==
    { Patch(<<"count">>, Scalar(Num(5))),
      Patch(<<"a", "b">>, Scalar(Num(99))),
      Patch(<<"count", "a">>, Scalar(Num(5))),
      Patch(<<"a", Num(1)>>, Scalar(Num(99))),
      Obj([value |-> Scalar(Num(5))]) }

\* the second comm and the second target name are there to be left alone:
\* they see one kind of data, two kinds of target and one handler
OpenDataOf(comm_id) ==
    IF comm_id = "c1" THEN OpenData ELSE {Obj([count |-> Scalar(Num(0))])}

MessageDataOf(comm_id) ==
    IF comm_id = "c1" THEN MessageData ELSE {Patch(<<"count">>, Scalar(Num(5)))}

TargetsOf(comm_id) ==
    IF comm_id = "c1" THEN TargetModules \X TargetNames
    ELSE {<<"reducers", "setIn">>, <<"custom", "widget">>}

HandlersOf(name) == IF name = "widget" THEN Handlers ELSE {"h1"}

RegisterCommTargetAction(name, handler) ==
    [type |-> "REGISTER_COMM_TARGET", name |-> name, handler |-> handler,
     comm_id |-> "undefined", target_name |-> "undefined",
     target_module |-> "undefined", data |-> undefined]

CommOpenAction(comm_id, target_name, target_module, data) ==
    [type |-> "COMM_OPEN", name |-> "undefined", handler |-> "undefined",
     comm_id |-> comm_id, target_name |-> target_name,
     target_module |-> target_module, data |-> data]

CommMessageAction(comm_id, data) ==
    [type |-> "COMM_MESSAGE", name |-> "undefined", handler |-> "undefined",
     comm_id |-> comm_id, target_name |-> "undefined",
     target_module |-> "undefined", data |-> data]

OtherAction(type) ==
    [type |-> type, name |-> "undefined", handler |-> "undefined",
     comm_id |-> "undefined", target_name |-> "undefined",
     target_module |-> "undefined", data |-> undefined]

----------------------------------------------------------------------------
(* The store: one dispatch calls the reducer once; when the reducer throws,
   the exception reaches the caller and the store keeps its state *)

Dispatch(a) ==
    LET next == reducer(state, a)
    IN /\ action' = a
       /\ threw' = (next = THROWN)
       /\ state' = IF next = THROWN THEN state ELSE next

Init ==
    /\ state = defaultCommState
    /\ action = OtherAction("@@INIT")
    /\ threw = FALSE
    /\ log = <<>>

RegisterCommTarget ==
    \E name \in Names :
      \E handler \in HandlersOf(name) :
        Dispatch(RegisterCommTargetAction(name, handler)) /\ UNCHANGED log

CommOpen ==
    \E comm_id \in CommIds :
      \E target \in TargetsOf(comm_id), data \in OpenDataOf(comm_id) :
        Dispatch(CommOpenAction(comm_id, target[2], target[1], data)) /\ UNCHANGED log

CommMessage ==
    \E comm_id \in CommIds :
      \E data \in MessageDataOf(comm_id) :
        Dispatch(CommMessageAction(comm_id, data)) /\ UNCHANGED log

OtherEvent ==
    \E type \in OtherTypes : Dispatch(OtherAction(type)) /\ UNCHANGED log

Next == RegisterCommTarget \/ CommOpen \/ CommMessage \/ OtherEvent

Spec == Init /\ [][Next]_vars

\* The same store with the dispatched actions recorded, for the claims about
\* a sequence of events from the initial state
Logged(a) == Len(log) < MaxLog /\ Dispatch(a) /\ log' = Append(log, a)

LoggedRegisterCommTarget ==
    \E name \in Names :
      \E handler \in HandlersOf(name) :
        Logged(RegisterCommTargetAction(name, handler))

LoggedCommOpen ==
    \E comm_id \in CommIds :
      \E target \in TargetsOf(comm_id), data \in OpenDataOf(comm_id) :
        Logged(CommOpenAction(comm_id, target[2], target[1], data))

LoggedCommMessage ==
    \E comm_id \in CommIds :
      \E data \in MessageDataOf(comm_id) :
        Logged(CommMessageAction(comm_id, data))

LoggedOtherEvent ==
    \E type \in OtherTypes : Logged(OtherAction(type))

NextE2E == LoggedRegisterCommTarget \/ LoggedCommOpen \/ LoggedCommMessage \/ LoggedOtherEvent

SpecE2E == Init /\ [][NextE2E]_vars

----------------------------------------------------------------------------
(* Reading the state and the actions *)

targetOf(s, name) == getIn(s, <<"targets", name>>)
infoOf(s, comm_id) == getIn(s, <<"info", comm_id>>)
modelOf(s, comm_id) == getIn(s, <<"models", comm_id>>)

hasTarget(s, name) == name \in keysOf(get(s, "targets"))
hasInfo(s, comm_id) == comm_id \in keysOf(get(s, "info"))
hasModel(s, comm_id) == comm_id \in keysOf(get(s, "models"))

\* the info record that a COMM_OPEN with these fields stores
InfoRecord(target_module, target_name) ==
    Node("Map", [target_module |-> Scalar(target_module), target_name |-> Scalar(target_name)])

isSetInInfo(info) == info = InfoRecord("reducers", "setIn")

\* data of the shape {path, value} with path a sequence of keys
isPatch(data) ==
    /\ tagOf(data) = "Object"
    /\ keysOf(data) = {"path", "value"}
    /\ tagOf(child(data, "path")) = "Array"

pathOf(data) == concat(<<>>, child(data, "path"))

\* im is the Immutable value that is structurally equal to the raw value js
RECURSIVE sameValue(_, _)
sameValue(js, im) ==
    /\ tagOf(im) = (IF tagOf(js) = "Object" THEN "Map" ELSE IF tagOf(js) = "Array" THEN "List" ELSE tagOf(js))
    /\ tagOf(im) \notin {"Object", "Array"}
    /\ keysOf(im) = keysOf(js)
    /\ \A k \in keysOf(js) : sameValue(child(js, k), child(im, k))

\* the key paths of the nodes of a tree
RECURSIVE pathsOf(_)
pathsOf(t) == {<<>>} \cup UNION {{<<k>> \o p : p \in pathsOf(child(t, k))} : k \in keysOf(t)}

isPrefix(p, q) == Len(p) <= Len(q) /\ SubSeq(q, 1, Len(p)) = p

isMessage(a) == a.type = "COMM_MESSAGE"
isOpen(a) == a.type = "COMM_OPEN"
isRegister(a) == a.type = "REGISTER_COMM_TARGET"

----------------------------------------------------------------------------
(* Claims *)

\* C1: for a comm whose info is reducers/setIn, a COMM_MESSAGE with data
\* {path, value} puts value at path inside models[comm_id] and leaves every
\* location of the model that is neither on nor below path as it was.
C1_PathWriteSetsValueKeepsSiblings ==
    [][ (isMessage(action') /\ isSetInInfo(infoOf(state, action'.comm_id)) /\ isPatch(action'.data))
        => LET old == modelOf(state, action'.comm_id)
               new == modelOf(state', action'.comm_id)
               path == pathOf(action'.data)
           IN /\ ~threw'
              /\ sameValue(child(action'.data, "value"), getIn(new, path))
              /\ \A q \in pathsOf(old) :
                    (~isPrefix(q, path) /\ ~isPrefix(path, q)) => getIn(new, q) = getIn(old, q) ]_vars

\* C2 as stated: after REGISTER_COMM_TARGET("widget", h), COMM_OPEN(c1,
\* widget, reducers, {count: 0}), COMM_MESSAGE(c1, {path: [count], value: 5})
\* from the initial state, models[c1] is {count: 5}.
E2ELog(handler) ==
    << RegisterCommTargetAction("widget", handler),
       CommOpenAction("c1", "widget", "reducers", Obj([count |-> Scalar(Num(0))])),
       CommMessageAction("c1", Patch(<<"count">>, Scalar(Num(5)))) >>

C2_E2EModelIsCountFive ==
    (\E h \in Handlers : log = E2ELog(h))
        => modelOf(state, "c1") = Node("Map", [count |-> Scalar(Num(5))])

\* C2 amended: after that sequence models[c1] is the message's data itself,
\* {path: [count], value: 5}: the comm's target_name is "widget", not
\* "setIn", so the message replaces the model.
C2_E2EModelIsMessageData ==
    (\E h \in Handlers : log = E2ELog(h))
        => modelOf(state, "c1") =
              Node("Map", [path |-> Node("List", (Num(0) :> Scalar("count"))),
                           value |-> Scalar(Num(5))])

C2_Witness ==
    /\ \E h \in Handlers : log = E2ELog(h)
    /\ ~threw
    /\ infoOf(state, "c1") = InfoRecord("reducers", "widget")

\* C3: for a comm whose info record is not reducers/setIn (one or both of
\* the fields differ), a COMM_MESSAGE makes models[comm_id] equal to its
\* data, whatever was stored and whatever the shape of the data.
C3_OtherTargetReplaces ==
    [][ (isMessage(action') /\ hasInfo(state, action'.comm_id)
           /\ ~isSetInInfo(infoOf(state, action'.comm_id)))
        => /\ ~threw'
           /\ sameValue(action'.data, modelOf(state', action'.comm_id)) ]_vars

C3_Witness ==
    /\ isMessage(action) /\ ~threw
    /\ infoOf(state, action.comm_id) \in {InfoRecord("custom", "setIn"), InfoRecord("reducers", "widget")}
    /\ isPatch(action.data)
    /\ sameValue(action.data, modelOf(state, action.comm_id))

\* C4: a COMM_MESSAGE for a comm_id that has no info entry replaces
\* models[comm_id] by its data, also when the data has the shape {path, value}.
C4_NoInfoReplaces ==
    [][ (isMessage(action') /\ ~hasInfo(state, action'.comm_id))
        => /\ ~threw'
           /\ sameValue(action'.data, modelOf(state', action'.comm_id)) ]_vars

C4_Witness ==
    /\ isMessage(action) /\ ~threw
    /\ ~hasInfo(state, action.comm_id)
    /\ isPatch(action.data)
    /\ hasModel(state, action.comm_id)

\* C5: after a COMM_OPEN both info[comm_id] and models[comm_id] exist,
\* info[comm_id] is {target_module, target_name} of the action and
\* models[comm_id] is structurally equal to the action's data.
C5_OpenCreatesPairedEntries ==
    [][ isOpen(action')
        => /\ ~threw'
           /\ hasInfo(state', action'.comm_id) /\ hasModel(state', action'.comm_id)
           /\ infoOf(state', action'.comm_id) = InfoRecord(action'.target_module, action'.target_name)
           /\ sameValue(action'.data, modelOf(state', action'.comm_id)) ]_vars

C5_Witness ==
    /\ isOpen(action) /\ ~threw
    /\ action.target_module # action.target_name
    /\ hasInfo(state, action.comm_id) /\ hasModel(state, action.comm_id)

\* C6: targets[name] is the handler of the most recent registration of
\* name; a name never registered has no entry, and an earlier handler of a
\* name registered again is nowhere in the registry.
lastRegistration(name) ==
    LET regs == {i \in 1..Len(log) : isRegister(log[i]) /\ log[i].name = name}
    IN IF regs = {} THEN 0 ELSE CHOOSE i \in regs : \A j \in regs : j <= i

C6_LastRegistrationWins ==
    /\ keysOf(get(state, "targets")) = {n \in Names : lastRegistration(n) # 0}
    /\ \A n \in Names :
          lastRegistration(n) # 0 => targetOf(state, n) = Scalar(log[lastRegistration(n)].handler)

C6_Witness ==
    \E i \in 1..Len(log) :
        /\ i < Len(log)
        /\ isRegister(log[i]) /\ isRegister(log[Len(log)])
        /\ log[i].name = log[Len(log)].name
        /\ log[i].handler # log[Len(log)].handler
        /\ targetOf(state, log[i].name) = Scalar(log[Len(log)].handler)

\* C7: an action whose type is none of the three the reducer knows leaves
\* the state as it was and raises no error.
C7_UnknownActionIsIdentity ==
    [][ action'.type \notin {"REGISTER_COMM_TARGET", "COMM_OPEN", "COMM_MESSAGE"}
        => (state' = state /\ ~threw') ]_vars

C7_Witness ==
    /\ action.type = "COMM_CLOSE" /\ ~threw
    /\ hasTarget(state, "widget") /\ hasInfo(state, "c1") /\ hasModel(state, "c1")

\* C8: no action makes the reducer raise an error, whatever the state.
C8_ReducerNeverThrows == threw = FALSE

\* C9 as stated: once info[comm_id] exists it has the same value in every
\* later state, whatever actions follow.
C9_InfoNeverMutated ==
    [][ \A c \in CommIds :
          hasInfo(state, c) => (hasInfo(state', c) /\ infoOf(state', c) = infoOf(state, c)) ]_vars

\* C9 amended: once info[comm_id] exists, only a COMM_OPEN for the same
\* comm_id changes it, and it then becomes the record of that COMM_OPEN;
\* every other action leaves it as it was.
C9_InfoMutatedOnlyByReopen ==
    [][ \A c \in CommIds :
          hasInfo(state, c)
            => /\ hasInfo(state', c)
               /\ infoOf(state', c) =
                    IF isOpen(action') /\ action'.comm_id = c
                    THEN InfoRecord(action'.target_module, action'.target_name)
                    ELSE infoOf(state, c) ]_vars

C9_Witness ==
    /\ isMessage(action) /\ ~threw
    /\ hasInfo(state, action.comm_id)
    /\ ~isSetInInfo(infoOf(state, action.comm_id))
    /\ sameValue(action.data, modelOf(state, action.comm_id))
    /\ ~isPatch(action.data)

\* C10: a COMM_OPEN for a comm_id that already has entries replaces them:
\* models[comm_id] is the new data alone, with exactly its keys, and
\* info[comm_id] is the record of the new action.
hadEntries(comm_id) ==
    \E i \in 1..Len(log) : i < Len(log) /\ isOpen(log[i]) /\ log[i].comm_id = comm_id

C10_ReopenOverwrites ==
    (log # <<>> /\ isOpen(log[Len(log)]) /\ hadEntries(log[Len(log)].comm_id))
        => LET a == log[Len(log)]
           IN /\ ~threw
              /\ keysOf(modelOf(state, a.comm_id)) = keysOf(a.data)
              /\ sameValue(a.data, modelOf(state, a.comm_id))
              /\ infoOf(state, a.comm_id) = InfoRecord(a.target_module, a.target_name)

C10_Witness ==
    /\ Len(log) >= 2 /\ isOpen(log[Len(log)]) /\ isOpen(log[Len(log) - 1])
    /\ log[Len(log)].comm_id = log[Len(log) - 1].comm_id
    /\ keysOf(log[Len(log)].data) # keysOf(log[Len(log) - 1].data)
    /\ log[Len(log)].target_name # log[Len(log) - 1].target_name
    /\ sameValue(log[Len(log)].data, modelOf(state, log[Len(log)].comm_id))

\* C11: a path-write whose path leads through containers the model does not
\* have (or to a comm that has no model) does not fail: the containers are
\* created as Maps and value is then at path.
startsFromNothing(s, comm_id, path) ==
    \/ ~hasModel(s, comm_id)
    \/ Len(path) >= 2 /\ get(modelOf(s, comm_id), path[1]) = NOT_SET

lastOpen(comm_id) ==
    LET opens == {i \in 1..Len(log) : isOpen(log[i]) /\ log[i].comm_id = comm_id}
    IN IF opens = {} THEN 0 ELSE CHOOSE i \in opens : \A j \in opens : j <= i

messageBeforeOpen ==
    /\ log # <<>>
    /\ isMessage(log[Len(log)])
    /\ isPatch(log[Len(log)].data)
    /\ lastOpen(log[Len(log)].comm_id) = 0

C12_MessageBeforeOpenIsPathWrite ==
    messageBeforeOpen
        => LET a == log[Len(log)]
           IN /\ ~threw
              /\ sameValue(child(a.data, "value"), getIn(modelOf(state, a.comm_id), pathOf(a.data)))

\* C12 amended: such a message raises no error and replaces the model:
\* models[comm_id] is the data {path, value} itself, and no info record is
\* created for the comm_id.
C12_MessageBeforeOpenReplaces ==
    messageBeforeOpen
        => LET a == log[Len(log)]
           IN /\ ~threw
              /\ sameValue(a.data, modelOf(state, a.comm_id))
              /\ ~hasInfo(state, a.comm_id)

C12_Witness ==
    /\ messageBeforeOpen
    /\ Len(log) >= 2
    /\ modelOf(state, log[Len(log)].comm_id) = fromJS(Patch(<<"a", "b">>, Scalar(Num(99))))

\* C13: when info[comm_id] is reducers/setIn and the data of a COMM_MESSAGE
\* has no path, the reducer raises an error and the state is not changed.
C13_MissingPathFails ==
    [][ (/\ isMessage(action') /\ isSetInInfo(infoOf(state, action'.comm_id))
         /\ tagOf(action'.data) = "Object" /\ "path" \notin keysOf(action'.data))
        => (threw' /\ state' = state) ]_vars

\* C15: a name that is a key of targets stays a key of targets, whatever
\* action follows.
C15_TargetsNeverRemoved ==
    [][ \A n \in Names : hasTarget(state, n) => hasTarget(state', n) ]_vars

C15_Witness ==
    /\ action = RegisterCommTargetAction("widget", "h2")
    /\ hasTarget(state, "t") /\ hasTarget(state, "widget")
    /\ hasInfo(state, "c1")

\* C17: a COMM_MESSAGE for c changes models[c] and nothing else: targets,
\* the whole info map and the model of every other comm are as before; a
\* COMM_OPEN for c leaves the info and the model of every other comm as
\* they were.
C17_MessageTouchesOnlyItsModel ==
    [][ /\ isMessage(action')
           => /\ get(state', "targets") = get(state, "targets")
              /\ get(state', "info") = get(state, "info")
              /\ keysOf(get(state', "models")) \subseteq keysOf(get(state, "models")) \cup {action'.comm_id}
              /\ \A d \in keysOf(get(state, "models")) \ {action'.comm_id} :
                    hasModel(state', d) /\ modelOf(state', d) = modelOf(state, d)
        /\ isOpen(action')
           => \A d \in CommIds \ {action'.comm_id} :
                 /\ hasInfo(state', d) = hasInfo(state, d)
                 /\ hasModel(state', d) = hasModel(state, d)
                 /\ infoOf(state', d) = infoOf(state, d)
                 /\ modelOf(state', d) = modelOf(state, d) ]_vars

C17_Witness ==
    /\ isMessage(action) /\ action.comm_id = "c1" /\ ~threw
    /\ isSetInInfo(infoOf(state, "c1"))
    /\ infoOf(state, "c2") = InfoRecord("custom", "widget")
    /\ modelOf(state, "c2") = Node("Map", [count |-> Scalar(Num(0))])

\* C18: every comm_id that is a key of info is a key of models (the info
\* record of a comm is never there without a model).
C18_InfoImpliesModel ==
    \A c \in CommIds : hasInfo(state, c) => hasModel(state, c)

\* a state that has both entries for one comm and, for the other, the model
\* that a message for a comm never opened leaves, without info
C18_Witness ==
    /\ hasInfo(state, "c1") /\ hasModel(state, "c1")
    /\ hasModel(state, "c2") /\ ~hasInfo(state, "c2")

\* C19: whether a COMM_MESSAGE with data {path, value} replaces the model
\* or path-writes is decided by the last COMM_OPEN of its comm_id alone: it
\* replaces (the model is then the data itself) exactly when there is no
\* such COMM_OPEN or its target is not reducers/setIn, whatever came before
\* it, other messages and registrations included; info[comm_id] is the
\* record of that COMM_OPEN.
lastIsPatchMessage ==
    log # <<>> /\ isMessage(log[Len(log)]) /\ isPatch(log[Len(log)].data)

C19_LastOpenDecides ==
    lastIsPatchMessage
        => LET a == log[Len(log)]
               k == lastOpen(a.comm_id)
               model == modelOf(state, a.comm_id)
               replaced == ~threw /\ sameValue(a.data, model)
               openedAsSetIn == k # 0 /\ log[k].target_module = "reducers" /\ log[k].target_name = "setIn"
           IN /\ replaced <=> ~openedAsSetIn
              /\ openedAsSetIn => (tagOf(model) = "Map" /\ "path" \notin keysOf(model))
              /\ IF k = 0 THEN ~hasInfo(state, a.comm_id)
                 ELSE infoOf(state, a.comm_id) = InfoRecord(log[k].target_module, log[k].target_name)

\* a comm opened with another target, re-opened as reducers/setIn, and then
\* path-written
C19_Witness ==
    /\ Len(log) = 3
    /\ isOpen(log[1]) /\ log[1].comm_id = "c1" /\ log[1].target_name = "widget"
    /\ isOpen(log[2]) /\ log[2].comm_id = "c1"
    /\ log[2].target_module = "reducers" /\ log[2].target_name = "setIn"
    /\ log[3] = CommMessageAction("c1", Patch(<<"count">>, Scalar(Num(5))))
    /\ ~threw
    /\ modelOf(state, "c1") = Node("Map", [count |-> Scalar(Num(5))])

\* C20: two actions that are addressed to different keys (two comm actions
\* with different comm_ids, a registration and a comm action, two
\* registrations of different names) give the same state in either order.
KeyedActions ==
    UNION {{RegisterCommTargetAction(n, h) : h \in HandlersOf(n)} : n \in Names}
      \cup UNION {{CommOpenAction(c, t[2], t[1], d) : t \in TargetsOf(c), d \in OpenDataOf(c)} : c \in CommIds}
      \cup UNION {{CommMessageAction(c, d) : d \in MessageDataOf(c)} : c \in CommIds}

keyOf(a) == IF isRegister(a) THEN <<"targets", a.name>> ELSE <<"comms", a.comm_id>>

Keys == {keyOf(a) : a \in KeyedActions}

\* an order of the keys, to take each pair of actions on different keys once
rankOfKey ==
    CHOOSE f \in [Keys -> 1..Cardinality(Keys)] : \A k1, k2 \in Keys : f[k1] = f[k2] => k1 = k2

\* the state the store holds after the action: the old one when the reducer throws
after(s, a) == LET next == reducer(s, a) IN IF next = THROWN THEN s ELSE next

\* The store as a value: the states the reducer can be given, without the
\* record of the action that led there
StoreStep(a) == state' = after(state, a) /\ UNCHANGED <<action, threw, log>>

StoreRegisterCommTarget == \E a \in {x \in KeyedActions : isRegister(x)} : StoreStep(a)

StoreCommOpen == \E a \in {x \in KeyedActions : isOpen(x)} : StoreStep(a)

StoreCommMessage == \E a \in {x \in KeyedActions : isMessage(x)} : StoreStep(a)

NextStore == StoreRegisterCommTarget \/ StoreCommOpen \/ StoreCommMessage

SpecStore == Init /\ [][NextStore]_vars

C20_DifferentKeysCommute ==
    \A a \in KeyedActions :
        LET first == after(state, a)
        IN \A b \in {x \in KeyedActions : rankOfKey[keyOf(a)] < rankOfKey[keyOf(x)]} :
              after(first, b) = after(after(state, b), a)

\* a state in which both comms are reducers/setIn comms with a model and a
\* target is registered, so that path-writes, opens and registrations meet
C20_Witness ==
    /\ isSetInInfo(infoOf(state, "c1")) /\ isSetInInfo(infoOf(state, "c2"))
    /\ hasTarget(state, "widget")
    /\ modelOf(state, "c1") = Node("Map", [count |-> Scalar(Num(0))])
    /\ modelOf(state, "c2") = Node("Map", [count |-> Scalar(Num(5))])

\* C16: in every state of the store, REGISTER_COMM_TARGET changes
\* targets[name] and nothing else; COMM_OPEN and COMM_MESSAGE leave targets
\* as it was; and what a COMM_OPEN does to info and models, whatever the
\* registry holds, is what it does when no target name is registered.
C16_RegistryIndependentOfComms ==
    \A a \in KeyedActions :
        LET next == reducer(state, a)
        IN next # THROWN
           => /\ isRegister(a)
                 => /\ get(next, "info") = get(state, "info")
                    /\ get(next, "models") = get(state, "models")
                    /\ keysOf(get(next, "targets")) = keysOf(get(state, "targets")) \cup {a.name}
                    /\ targetOf(next, a.name) = Scalar(a.handler)
                    /\ \A n \in keysOf(get(state, "targets")) \ {a.name} :
                          targetOf(next, n) = targetOf(state, n)
              /\ (isOpen(a) \/ isMessage(a))
                 => get(next, "targets") = get(state, "targets")
              /\ isOpen(a)
                 => LET unregistered == reducer(set(state, "targets", emptyMap), a)
                    IN <<get(unregistered, "info"), get(unregistered, "models")>>
                          = <<get(next, "info"), get(next, "models")>>

\* a comm open against a target name that was never registered (no entry of
\* targets is ever removed), while another name is registered
C16_Witness ==
    /\ infoOf(state, "c1") = InfoRecord("custom", "widget")
    /\ modelOf(state, "c1") = Node("Map", [count |-> Scalar(Num(0))])
    /\ ~hasTarget(state, "widget")
    /\ hasTarget(state, "t")

====
